---- MODULE Spec2Model ----
(***************************************************************************)
(* The pg_stream input connector (src/pg_stream/pg_stream.go).             *)
(*                                                                         *)
(* The file holds two variants of the connector:                           *)
(*   "store": lines 1-255, which builds a Redis check pointer in Connect   *)
(*            and hands it to the replication library;                     *)
(*   "lib":   lines 257-506, which acknowledges positions through the      *)
(*            replication library (AckLSN).                                *)
(* One connector instance p is modelled, with the caller's operations      *)
(* Connect, Read, Close, the invocation of the ack functions Read          *)
(* returned, the cancellation of the context, and the replication          *)
(* session's goroutines producing on the two channels.                     *)
(***************************************************************************)
EXTENDS Integers, Sequences, FiniteSets, TLC

\* ---------------------------------------------------------------- bounds
MaxSnap == 2        \* snapshot rows a session produces at most
MaxChange == 2      \* change events a session produces at most
MaxCalls == 4       \* calls of Connect, Read, Close and the ack functions
MaxPos == 2         \* positions written to the checkpoint store: 1..MaxPos
MaxStoreOps == 3    \* operations on the checkpoint store

\* ---------------------------------------------------------------- values
Nil == "nil"                       \* a nil error
NilStream == 0                     \* p.pglogicalStream == nil
NoMessage == <<>>                  \* a nil *service.Message
NoLsn == 0                         \* message.Lsn == nil
StopError == "StopError"           \* an error returned by Stream.Stop()
MarshalError == "MarshalError"     \* an error returned by json.Marshal
TimedOut == "action timed out"     \* errors.New("action timed out")
ErrEndOfInput == "ErrEndOfInput"   \* service.ErrEndOfInput, benthos' end-of-stream
Variants == {"store", "lib"}

VARIABLES
    variant,          \* which of the two variants of the file is running
    pglogicalStream,  \* p.pglogicalStream: Nil, or the number of the session
    live,             \* the session p.pglogicalStream points to is active
    snapC,            \* SnapshotMessageC(): [buf: values ready to be received, closed]
    lrC,              \* LrMessageC():       [buf: values ready to be received, closed]
    snapSent,         \* rows the session has produced on snapC
    lrSent,           \* events the session has produced on lrC
    ctxDone,          \* the context handed to Read is cancelled
    crashed,          \* the process panicked
    ackFns,           \* the ack functions Read has returned and the caller
                      \* has not invoked yet, in the order of the reads
    ackLSNCalls,      \* the positions written by AckLSN / SetCheckPoint, in order
    stopCalls,        \* calls of Stream.Stop()
    terminations,     \* sessions that Stop() has terminated
    orphans,          \* live sessions p no longer points to
    ret,              \* what the last operation returned
    snapOut,          \* ids of the envelopes returned from the snapshot case
    lrOut,            \* ids of the envelopes returned from the change case
    calls,            \* calls the caller has made
    sessions,         \* sessions NewPgStream has created
    hist,             \* what has happened so far: eos, a Read returned through
                      \* ctx.Done; eosEmpty, it did so with both channels empty;
                      \* closed, a Close returned; closeErr, a Close returned
                      \* the error of Stop(); checkPointers, the check pointer
                      \* connections Connect has opened (none is ever closed)
    cp                \* the check pointer: db, what Redis holds; ret, what its
                      \* last operation returned; n, its operations so far;
                      \* last, per slot the last position written with success

\* The connector's own state.
connVars == <<variant, pglogicalStream, live, snapC, lrC, snapSent, lrSent, ctxDone,
              crashed, ackFns, ackLSNCalls, stopCalls, terminations, orphans, ret,
              snapOut, lrOut, calls, sessions, hist>>

vars == <<connVars, cp>>

\* ---------------------------------------------------------------- helpers
\* A decoded message: id is its number in production order on its channel,
\* Lsn the position marker (NoLsn: none), ok whether json.Marshal accepts it.
\* (The store variant's channels carry bytes, which are never marshalled.)
Message(id, lsn, ok) == [id |-> id, Lsn |-> lsn, ok |-> ok]

\* The zero value a receive from a closed, drained Go channel yields.
ZeroMessage == Message(0, NoLsn, TRUE)

OpenChan == [buf |-> <<>>, closed |-> FALSE]

\* A receive case of select is ready: a value is waiting, or the channel is
\* closed (a receive from a closed channel never blocks).
Ready(ch) == ch.buf # <<>> \/ ch.closed

\* A receive that takes the newest waiting value instead of the oldest.
RecvLast(ch) ==
    IF ch.buf # <<>>
      THEN [val |-> ch.buf[Len(ch.buf)],
            ch |-> [ch EXCEPT !.buf = SubSeq(@, 1, Len(@) - 1)]]
      ELSE [val |-> ZeroMessage, ch |-> ch]

\* v := <-ch: the value received and the channel afterwards. A closed channel
\* with nothing waiting yields the zero value.
Recv(ch) ==
    IF ch.buf # <<>> THEN [val |-> Head(ch.buf), ch |-> [ch EXCEPT !.buf = Tail(@)]]
                     ELSE [val |-> ZeroMessage, ch |-> ch]

\* json.Marshal(message): the bytes, or an error.
Marshal(m) ==
    IF m.ok THEN [mb |-> <<"json", m.id, m.Lsn>>, err |-> Nil]
            ELSE [mb |-> NoMessage, err |-> MarshalError]

\* What a call returned: op the operation, via the select case taken (or the
\* source of the ack function invoked), msg the message returned, ack whether
\* an ack function came with it, err the error returned; for an ack function,
\* sig the error it was invoked with and id, lsn the message it had captured;
\* prev the operation the caller had called before this one.
Ret(op, via, msg, ack, err) ==
    [op |-> op, via |-> via, msg |-> msg, ack |-> ack, err |-> err,
     sig |-> Nil, id |-> 0, lsn |-> NoLsn, prev |-> ret.op]

\* The closure Read returns as ack function: it captures the message.
AckFunc(src, message) == [src |-> src, message |-> message]

TypeOK ==
    /\ variant \in Variants
    /\ pglogicalStream \in {NilStream} \cup (1..MaxCalls)
    /\ live \in BOOLEAN /\ ctxDone \in BOOLEAN /\ crashed \in BOOLEAN
    /\ snapC.closed \in BOOLEAN /\ lrC.closed \in BOOLEAN
    /\ Len(snapC.buf) <= MaxSnap /\ Len(lrC.buf) <= MaxChange
    /\ snapSent \in 0..MaxSnap /\ lrSent \in 0..MaxChange
    /\ calls \in 0..MaxCalls /\ sessions \in 0..MaxCalls
    /\ stopCalls \in 0..MaxCalls
    /\ terminations \in 0..MaxCalls /\ orphans \in 0..MaxCalls
    /\ Len(ackLSNCalls) <= MaxCalls /\ Len(ackFns) <= MaxCalls

\* ------------------------------------------------------ the check pointer
\* PgStreamCheckPointer (src/unnamed/part_000). Strings are sequences of
\* characters; a position is a number, and Empty the empty string.
Empty == 0
RedisNil == "redis: nil"           \* the error of a Get on a key that is not set
RedisError == "redis error"        \* the store cannot be reached

\* Replication slot names.
Slots == {<<"a">>, <<"b">>, <<"a", "b">>}

\* p.slotName, the slot of the connector.
SlotName == <<"a">>

Prefix == <<"r", "s", "_", "checkpoint", "_">>

\* A key that keeps only the first character of the slot name ("%.1s").
KeyFirstChar(replicationSlot) == Prefix \o SubSeq(replicationSlot, 1, 1)

\* fmt.Sprintf("rs_checkpoint_%s", replicationSlot)
Key(replicationSlot) == Prefix \o replicationSlot

\* redisConn.Set(key, value, 0): an unconditional overwrite without expiry,
\* or an error that leaves the store as it was.
RedisSet(db, key, value, ok) ==
    IF ok THEN [db |-> (key :> value) @@ db, err |-> Nil]
          ELSE [db |-> db, err |-> RedisError]

\* redisConn.Get(key).Result(): the value; redis.Nil and the empty string for a
\* key that is not set; the error and the empty string when the read fails.
RedisGet(db, key, ok) ==
    IF ~ok THEN [val |-> Empty, err |-> RedisError]
    ELSE IF key \in DOMAIN db THEN [val |-> db[key], err |-> Nil]
    ELSE [val |-> Empty, err |-> RedisNil]

\* A SetCheckPoint that never moves a stored position backwards.
SetCheckPointMonotonic(db, lnsCheckPoint, replicationSlot, ok) ==
    IF ok /\ RedisGet(db, Key(replicationSlot), TRUE).val > lnsCheckPoint
      THEN [db |-> db, err |-> Nil]
      ELSE RedisSet(db, Key(replicationSlot), lnsCheckPoint, ok)

\* SetCheckPoint(lnsCheckPoint, replicationSlot): the store afterwards and the
\* error returned.
SetCheckPoint(db, lnsCheckPoint, replicationSlot, ok) ==
    RedisSet(db, Key(replicationSlot), lnsCheckPoint, ok)

\* A GetCheckPoint that lets the failure of the read show in its result.
GetCheckPointShowsError(db, replicationSlot, ok) ==
    LET r == RedisGet(db, Key(replicationSlot), ok)
    IN IF r.err = RedisError THEN -1 ELSE r.val

\* GetCheckPoint(replicationSlot): result, _ := ...Result(); return result
GetCheckPoint(db, replicationSlot, ok) ==
    RedisGet(db, Key(replicationSlot), ok).val

\* ---------------------------------------------------------------- Init
\* The instance newPgStreamInput builds: no session yet.
Init ==
    /\ variant \in Variants
    /\ pglogicalStream = NilStream
    /\ live = FALSE
    /\ snapC = OpenChan /\ lrC = OpenChan
    /\ snapSent = 0 /\ lrSent = 0
    /\ ctxDone = FALSE
    /\ crashed = FALSE
    /\ ackFns = <<>>
    /\ ackLSNCalls = <<>>
    /\ stopCalls = 0 /\ terminations = 0 /\ orphans = 0
    /\ ret = [op |-> "none", via |-> "none", msg |-> NoMessage, ack |-> FALSE,
              err |-> Nil, sig |-> Nil, id |-> 0, lsn |-> NoLsn, prev |-> "none"]
    /\ snapOut = <<>> /\ lrOut = <<>>
    /\ calls = 0 /\ sessions = 0
    /\ hist = [eos |-> FALSE, eosEmpty |-> FALSE, closed |-> FALSE, closeErr |-> FALSE,
               checkPointers |-> 0]
    /\ cp = [db |-> <<>>, n |-> 0, last |-> [slot \in Slots |-> Empty],
             ret |-> [op |-> "none", slot |-> <<>>, val |-> Empty, err |-> Nil,
                      ok |-> TRUE, prev |-> Empty, werr |-> Nil, sig |-> Nil]]

\* ------------------------------------------------ the replication session
\* pglogicalstream.NewPgStream succeeded: a new session, with two open
\* channels, replaces whatever p.pglogicalStream pointed to.
NewSession ==
    /\ sessions' = sessions + 1
    /\ pglogicalStream' = sessions + 1
    /\ live' = TRUE
    /\ snapC' = OpenChan /\ lrC' = OpenChan
    /\ snapSent' = 0 /\ lrSent' = 0
    /\ snapOut' = <<>> /\ lrOut' = <<>>
    /\ orphans' = orphans + (IF live THEN 1 ELSE 0)

\* What Stream.Stop() can return: stopping an active session may fail;
\* stopping a stopped one is a no-op.
StopResults == IF live THEN {Nil, StopError} ELSE {Nil}

\* Stream.Stop(): ends the session and closes both channels; values not yet
\* received are gone with the producers.
Stop ==
    /\ stopCalls' = stopCalls + 1
    /\ IF live
         THEN /\ live' = FALSE
              /\ snapC' = [buf |-> <<>>, closed |-> TRUE]
              /\ lrC' = [buf |-> <<>>, closed |-> TRUE]
              /\ terminations' = terminations + 1
         ELSE UNCHANGED <<live, snapC, lrC, terminations>>

\* Whether json.Marshal will accept a message the session produces.
Marshallable == IF variant = "lib" THEN BOOLEAN ELSE {TRUE}

\* The session's snapshot goroutine sends one more pre-existing row.
ProduceSnapshot ==
    /\ ~crashed /\ live /\ ~snapC.closed /\ snapSent < MaxSnap
    /\ \E ok \in Marshallable :
          snapC' = [snapC EXCEPT !.buf = Append(@, Message(snapSent + 1, NoLsn, ok))]
    /\ snapSent' = snapSent + 1
    /\ UNCHANGED <<cp, variant, pglogicalStream, live, lrC, lrSent, ctxDone, crashed,
                   ackFns, ackLSNCalls, stopCalls, terminations, orphans, ret,
                   snapOut, lrOut, hist, calls, sessions>>

\* The snapshot is complete: the session closes the snapshot channel.
CloseSnapshot ==
    /\ ~crashed /\ live /\ ~snapC.closed /\ snapC.buf = <<>>
    /\ snapC' = [snapC EXCEPT !.closed = TRUE]
    /\ UNCHANGED <<cp, variant, pglogicalStream, live, lrC, snapSent, lrSent, ctxDone,
                   crashed, ackFns, ackLSNCalls, stopCalls, terminations, orphans,
                   ret, snapOut, lrOut, hist, calls, sessions>>

\* The session's replication goroutine sends one more change event, with a
\* position marker (positions grow along the feed) or without one.
ProduceChange ==
    /\ ~crashed /\ live /\ ~lrC.closed /\ lrSent < MaxChange
    /\ \E lsn \in {NoLsn, lrSent + 1}, ok \in Marshallable :
          lrC' = [lrC EXCEPT !.buf = Append(@, Message(lrSent + 1, lsn, ok))]
    /\ lrSent' = lrSent + 1
    /\ UNCHANGED <<cp, variant, pglogicalStream, live, snapC, snapSent, ctxDone, crashed,
                   ackFns, ackLSNCalls, stopCalls, terminations, orphans, ret,
                   snapOut, lrOut, hist, calls, sessions>>

\* The caller cancels the context it hands to Read.
Cancel ==
    /\ ~crashed /\ ~ctxDone
    /\ ctxDone' = TRUE
    /\ UNCHANGED <<cp, variant, pglogicalStream, live, snapC, lrC, snapSent, lrSent,
                   crashed, ackFns, ackLSNCalls, stopCalls, terminations, orphans,
                   ret, snapOut, lrOut, hist, calls, sessions>>


\* ------------------------------------------------------- the ack functions
\* Each is given as the positions it writes (through AckLSN), in order; all
\* of them return nil.

\* A snapshot ack function that acknowledges the row like a change event.
SnapshotAckFnWrites(message, err) == <<message.id>>

\* lib: the ack function of a snapshot message. It does nothing.
SnapshotAckFn(message, err) == <<>>

\* lib: the ack function of a change message. It acknowledges the message's
\* position when there is one, and does not look at err.
LrAckFn(message, err) == IF message.Lsn # NoLsn THEN <<message.Lsn>> ELSE <<>>

\* store: the ack function of a snapshot message. It does nothing.
StoreSnapshotAckFn(message, err) == <<>>

\* store: the ack function of a change message. It does nothing.
StoreLrAckFn(message, err) == <<>>

\* s without its i-th element.
Remove(s, i) == SubSeq(s, 1, i - 1) \o SubSeq(s, i + 1, Len(s))

\* The caller invokes one of the ack functions it holds, in any order, with
\* nil (success) or an error (failure). It invokes each once.
Ack ==
    /\ ~crashed /\ calls < MaxCalls
    /\ \E i \in DOMAIN ackFns, err \in {Nil, "nack"} :
         LET f == ackFns[i]
             writes == IF variant = "lib"
                         THEN IF f.src = "snapshot" THEN SnapshotAckFn(f.message, err)
                                                    ELSE LrAckFn(f.message, err)
                         ELSE IF f.src = "snapshot" THEN StoreSnapshotAckFn(f.message, err)
                                                    ELSE StoreLrAckFn(f.message, err)
         IN /\ ackLSNCalls' = ackLSNCalls \o writes
            /\ ackFns' = Remove(ackFns, i)
            /\ ret' = [Ret("Ack", f.src, NoMessage, FALSE, Nil)
                         EXCEPT !.sig = err, !.id = f.message.id,
                                !.lsn = f.message.Lsn]
    /\ calls' = calls + 1
    /\ UNCHANGED <<cp, variant, pglogicalStream, live, snapC, lrC, snapSent, lrSent,
                   ctxDone, crashed, stopCalls, terminations, orphans,
                   snapOut, lrOut, sessions, hist>>

\* ---------------------------------------------------------------- Connect
\* lib: NewPgStream's error makes Connect panic; otherwise the new session is
\* stored in p.pglogicalStream, whatever was there.
Connect ==
    /\ variant = "lib" /\ ~crashed /\ calls < MaxCalls
    /\ calls' = calls + 1
    /\ \E failed \in BOOLEAN :
         IF failed
           THEN /\ crashed' = TRUE
                /\ ret' = Ret("Connect", "NewPgStream", NoMessage, FALSE, Nil)
                /\ UNCHANGED <<pglogicalStream, live, snapC, lrC, snapSent, lrSent,
                               snapOut, lrOut, orphans, sessions>>
           ELSE /\ NewSession
                /\ ret' = Ret("Connect", "none", NoMessage, FALSE, Nil)
                /\ UNCHANGED crashed
    /\ UNCHANGED <<cp, variant, ctxDone, ackFns, ackLSNCalls, stopCalls, terminations, hist>>

\* store: an unparsable Redis URI or an unreachable Redis is returned as an
\* error; NewPgStream's error makes Connect panic, after the check pointer's
\* connection was opened.
StoreConnect ==
    /\ variant = "store" /\ ~crashed /\ calls < MaxCalls
    /\ calls' = calls + 1
    /\ \E outcome \in {"ok", "url.Parse", "NewPgStreamCheckPointer", "NewPgStream"} :
         CASE outcome = "ok" ->
                /\ NewSession
                /\ ret' = Ret("Connect", "none", NoMessage, FALSE, Nil)
                /\ hist' = [hist EXCEPT !.checkPointers = @ + 1]
                /\ UNCHANGED crashed
           [] outcome = "NewPgStream" ->
                /\ crashed' = TRUE
                /\ ret' = Ret("Connect", "NewPgStream", NoMessage, FALSE, Nil)
                /\ hist' = [hist EXCEPT !.checkPointers = @ + 1]
                /\ UNCHANGED <<pglogicalStream, live, snapC, lrC, snapSent, lrSent,
                               snapOut, lrOut, orphans, sessions>>
           [] OTHER ->
                /\ ret' = Ret("Connect", outcome, NoMessage, FALSE, outcome)
                /\ UNCHANGED <<crashed, pglogicalStream, live, snapC, lrC, snapSent,
                               lrSent, snapOut, lrOut, orphans, sessions, hist>>
    /\ UNCHANGED <<cp, variant, ctxDone, ackFns, ackLSNCalls, stopCalls, terminations>>

\* ---------------------------------------------------------------- Read
\* p.pglogicalStream.SnapshotMessageC() on the nil pointer of an instance that
\* was never connected: a nil dereference, the process panics.
ReadNil ==
    /\ ~crashed /\ calls < MaxCalls
    /\ pglogicalStream = NilStream
    /\ crashed' = TRUE
    /\ calls' = calls + 1
    /\ ret' = Ret("Read", "panic", NoMessage, FALSE, Nil)
    /\ UNCHANGED <<cp, variant, pglogicalStream, live, snapC, lrC, snapSent, lrSent,
                   ctxDone, ackFns, ackLSNCalls, stopCalls, terminations, orphans,
                   snapOut, lrOut, hist, sessions>>

\* lib: case snapshotMessage := <-p.pglogicalStream.SnapshotMessageC()
ReadSnapshot ==
    /\ variant = "lib" /\ ~crashed /\ calls < MaxCalls
    /\ pglogicalStream # NilStream /\ Ready(snapC)
    /\ LET r == Recv(snapC)
           snapshotMessage == r.val
           m == Marshal(snapshotMessage)
       IN /\ snapC' = r.ch
          /\ IF m.err # Nil
               THEN /\ ret' = Ret("Read", "snapshot", NoMessage, FALSE, m.err)
                    /\ UNCHANGED <<ackFns, snapOut>>
               ELSE /\ ret' = Ret("Read", "snapshot", m.mb, TRUE, Nil)
                    /\ ackFns' = Append(ackFns, AckFunc("snapshot", snapshotMessage))
                    /\ snapOut' = Append(snapOut, snapshotMessage.id)
    /\ calls' = calls + 1
    /\ UNCHANGED <<cp, variant, pglogicalStream, live, lrC, snapSent, lrSent, ctxDone,
                   crashed, ackLSNCalls, stopCalls, terminations, orphans, lrOut, hist, sessions>>

\* A change case that treats a serialization failure like a shutdown: it stops
\* the session before returning the error.
ReadLrStopsOnError ==
    /\ variant = "lib" /\ ~crashed /\ calls < MaxCalls
    /\ pglogicalStream # NilStream /\ Ready(lrC)
    /\ LET r == Recv(lrC)
           message == r.val
           m == Marshal(message)
       IN IF m.err # Nil
            THEN /\ ret' = Ret("Read", "lr", NoMessage, FALSE, m.err)
                 /\ Stop
                 /\ UNCHANGED <<ackFns, lrOut>>
            ELSE /\ lrC' = r.ch
                 /\ ret' = Ret("Read", "lr", m.mb, TRUE, Nil)
                 /\ ackFns' = Append(ackFns, AckFunc("lr", message))
                 /\ lrOut' = Append(lrOut, message.id)
                 /\ UNCHANGED <<live, snapC, stopCalls, terminations>>
    /\ calls' = calls + 1
    /\ UNCHANGED <<cp, variant, pglogicalStream, snapSent, lrSent, ctxDone,
                   crashed, ackLSNCalls, orphans, snapOut, hist, sessions>>

\* lib: case message := <-p.pglogicalStream.LrMessageC()
ReadLr ==
    /\ variant = "lib" /\ ~crashed /\ calls < MaxCalls
    /\ pglogicalStream # NilStream /\ Ready(lrC)
    /\ LET r == Recv(lrC)
           message == r.val
           m == Marshal(message)
       IN /\ lrC' = r.ch
          /\ IF m.err # Nil
               THEN /\ ret' = Ret("Read", "lr", NoMessage, FALSE, m.err)
                    /\ UNCHANGED <<ackFns, lrOut>>
               ELSE /\ ret' = Ret("Read", "lr", m.mb, TRUE, Nil)
                    /\ ackFns' = Append(ackFns, AckFunc("lr", message))
                    /\ lrOut' = Append(lrOut, message.id)
    /\ calls' = calls + 1
    /\ UNCHANGED <<cp, variant, pglogicalStream, live, snapC, snapSent, lrSent, ctxDone,
                   crashed, ackLSNCalls, stopCalls, terminations, orphans, snapOut, hist, sessions>>

\* lib: case <-ctx.Done(): return nil, nil, p.pglogicalStream.Stop()
ReadCtxDone ==
    /\ variant = "lib" /\ ~crashed /\ calls < MaxCalls
    /\ pglogicalStream # NilStream /\ ctxDone
    /\ \E res \in StopResults : ret' = Ret("Read", "ctx", NoMessage, FALSE, res)
    /\ Stop
    /\ hist' = [hist EXCEPT !.eos = TRUE,
                            !.eosEmpty = @ \/ (~Ready(snapC) /\ ~Ready(lrC))]
    /\ calls' = calls + 1
    /\ UNCHANGED <<cp, variant, pglogicalStream, snapSent, lrSent, ctxDone, crashed,
                   ackFns, ackLSNCalls, orphans, snapOut, lrOut, sessions>>

\* lib: the select of Read. It blocks while no case is ready, and takes any
\* one of the ready cases.
Read == ReadSnapshot \/ ReadLr \/ ReadCtxDone

\* store: case snapshotMessage := <-p.pglogicalStream.SnapshotMessageC()
StoreReadSnapshot ==
    /\ variant = "store" /\ ~crashed /\ calls < MaxCalls
    /\ pglogicalStream # NilStream /\ Ready(snapC)
    /\ LET r == Recv(snapC)
           snapshotMessage == r.val
       IN /\ snapC' = r.ch
          /\ ret' = Ret("Read", "snapshot", <<"raw", snapshotMessage.id, snapshotMessage.Lsn>>,
                        TRUE, Nil)
          /\ ackFns' = Append(ackFns, AckFunc("snapshot", snapshotMessage))
          /\ snapOut' = Append(snapOut, snapshotMessage.id)
    /\ calls' = calls + 1
    /\ UNCHANGED <<cp, variant, pglogicalStream, live, lrC, snapSent, lrSent, ctxDone,
                   crashed, ackLSNCalls, stopCalls, terminations, orphans, lrOut, hist, sessions>>

\* store: case message := <-p.pglogicalStream.LrMessageC()
StoreReadLr ==
    /\ variant = "store" /\ ~crashed /\ calls < MaxCalls
    /\ pglogicalStream # NilStream /\ Ready(lrC)
    /\ LET r == Recv(lrC)
           message == r.val
       IN /\ lrC' = r.ch
          /\ ret' = Ret("Read", "lr", <<"raw", message.id, message.Lsn>>, TRUE, Nil)
          /\ ackFns' = Append(ackFns, AckFunc("lr", message))
          /\ lrOut' = Append(lrOut, message.id)
    /\ calls' = calls + 1
    /\ UNCHANGED <<cp, variant, pglogicalStream, live, snapC, snapSent, lrSent, ctxDone,
                   crashed, ackLSNCalls, stopCalls, terminations, orphans, snapOut, hist, sessions>>

\* store: case <-ctx.Done() falls out of the select:
\* return nil, nil, errors.New("action timed out"). Stop() is not called.
StoreReadCtxDone ==
    /\ variant = "store" /\ ~crashed /\ calls < MaxCalls
    /\ pglogicalStream # NilStream /\ ctxDone
    /\ ret' = Ret("Read", "ctx", NoMessage, FALSE, TimedOut)
    /\ hist' = [hist EXCEPT !.eos = TRUE,
                            !.eosEmpty = @ \/ (~Ready(snapC) /\ ~Ready(lrC))]
    /\ calls' = calls + 1
    /\ UNCHANGED <<cp, variant, pglogicalStream, live, snapC, lrC, snapSent, lrSent,
                   ctxDone, crashed, ackFns, ackLSNCalls, stopCalls, terminations,
                   orphans, snapOut, lrOut, sessions>>

\* store: the select of Read.
StoreRead == StoreReadSnapshot \/ StoreReadLr \/ StoreReadCtxDone

\* ---------------------------------------------------------------- Close
\* A Close that calls Stop() without looking at p.pglogicalStream first.
CloseNoNilCheck ==
    /\ ~crashed /\ calls < MaxCalls
    /\ calls' = calls + 1
    /\ IF pglogicalStream # NilStream
         THEN /\ \E res \in StopResults :
                    /\ ret' = Ret("Close", "none", NoMessage, FALSE, res)
                    /\ hist' = [hist EXCEPT !.closed = TRUE, !.closeErr = @ \/ res # Nil]
              /\ Stop
              /\ UNCHANGED crashed
         ELSE /\ ret' = Ret("Close", "panic", NoMessage, FALSE, Nil)
              /\ crashed' = TRUE
              /\ UNCHANGED <<hist, stopCalls, live, snapC, lrC, terminations>>
    /\ UNCHANGED <<cp, variant, pglogicalStream, snapSent, lrSent, ctxDone,
                   ackFns, ackLSNCalls, orphans, snapOut, lrOut, sessions>>

\* Both variants: if p.pglogicalStream != nil { return p.pglogicalStream.Stop() }
\* return nil. p.pglogicalStream is left as it is.
Close ==
    /\ ~crashed /\ calls < MaxCalls
    /\ calls' = calls + 1
    /\ IF pglogicalStream # NilStream
         THEN /\ \E res \in StopResults :
                    /\ ret' = Ret("Close", "none", NoMessage, FALSE, res)
                    /\ hist' = [hist EXCEPT !.closed = TRUE, !.closeErr = @ \/ res # Nil]
              /\ Stop
              /\ UNCHANGED crashed
         ELSE /\ ret' = Ret("Close", "none", NoMessage, FALSE, Nil)
              /\ hist' = [hist EXCEPT !.closed = TRUE]
              /\ UNCHANGED <<stopCalls, live, snapC, lrC, terminations, crashed>>
    /\ UNCHANGED <<cp, variant, pglogicalStream, snapSent, lrSent, ctxDone,
                   ackFns, ackLSNCalls, orphans, snapOut, lrOut, sessions>>

\* ---------------------------------------------------------------- Next
Next ==
    \/ Connect \/ StoreConnect
    \/ ReadNil \/ Read \/ StoreRead
    \/ Close
    \/ Ack
    \/ Cancel
    \/ ProduceSnapshot \/ CloseSnapshot \/ ProduceChange

Spec == Init /\ [][Next]_vars

\* ------------------------------------------- the check pointer's operations
\* What an operation on the check pointer returned: val the position given or
\* returned, err the error returned, ok whether Redis answered, prev the
\* position the slot held before; for an ack function, werr the error of the
\* write it caused and sig the error it was invoked with.
StoreRet(op, slot, val, err, ok) ==
    [op |-> op, slot |-> slot, val |-> val, err |-> err, ok |-> ok,
     prev |-> GetCheckPoint(cp.db, slot, TRUE), werr |-> Nil, sig |-> Nil]

\* The replication library calls SetCheckPoint on the check pointer.
SetCheckPointCall ==
    /\ cp.n < MaxStoreOps
    /\ \E slot \in Slots, lsn \in 1..MaxPos, ok \in BOOLEAN :
         LET r == SetCheckPoint(cp.db, lsn, slot, ok)
         IN cp' = [db |-> r.db, n |-> cp.n + 1,
                   last |-> IF r.err = Nil THEN [cp.last EXCEPT ![slot] = lsn]
                                           ELSE cp.last,
                   ret |-> StoreRet("Set", slot, lsn, r.err, ok)]
    /\ UNCHANGED connVars

\* The replication library calls GetCheckPoint on the check pointer.
GetCheckPointCall ==
    /\ cp.n < MaxStoreOps
    /\ \E slot \in Slots, ok \in BOOLEAN :
         cp' = [cp EXCEPT !.n = @ + 1,
                          !.ret = StoreRet("Get", slot, GetCheckPoint(cp.db, slot, ok),
                                           Nil, ok)]
    /\ UNCHANGED connVars

\* Stream.AckLSN(lsn): the position is recorded as the checkpoint of the
\* connector's slot.
AckLSN(db, lsn, ok) == SetCheckPoint(db, lsn, SlotName, ok)

\* What the ack functions return, whatever became of the write: return nil.
AckFnReturn(writeErr) == Nil

\* The caller invokes the ack function of a change event Read returned to it,
\* in any order among those it holds, with nil or an error; the event carries
\* the position lsn, or none.
AckChange ==
    /\ cp.n < MaxStoreOps
    /\ \E lsn \in {NoLsn} \cup (1..MaxPos), err \in {Nil, "nack"}, ok \in BOOLEAN :
         LET message == Message(1, lsn, TRUE)
             writes == IF variant = "lib" THEN LrAckFn(message, err)
                                          ELSE StoreLrAckFn(message, err)
             r == IF writes = <<>> THEN [db |-> cp.db, err |-> Nil]
                                   ELSE AckLSN(cp.db, writes[1], ok)
         IN cp' = [db |-> r.db, n |-> cp.n + 1,
                   last |-> IF writes # <<>> /\ r.err = Nil
                              THEN [cp.last EXCEPT ![SlotName] = writes[1]]
                              ELSE cp.last,
                   ret |-> [StoreRet("Ack", SlotName, lsn, AckFnReturn(r.err), ok)
                              EXCEPT !.werr = r.err, !.sig = err]]
    /\ UNCHANGED connVars

NextStore == SetCheckPointCall \/ GetCheckPointCall \/ AckChange

SpecStore == Init /\ [][NextStore]_vars

\* ------------------------------------------------------------- properties
\* The ids of the envelopes that carry a produced event (id 0 is the zero
\* value of a closed channel).
RealIds(out) == SelectSeq(out, LAMBDA id : id # 0)

Increasing(seq) == \A i, j \in DOMAIN seq : i < j => seq[i] < seq[j]

\* The step is a call of op by the caller.
Called(op) == calls' # calls /\ ret'.op = op

\* C1: while the session runs, every envelope Read has returned corresponds
\* to an event the session produced on the channel it was taken from, and no
\* event is returned twice; in particular nothing is returned from the
\* snapshot channel the session closed when the snapshot was complete.
C1_ExactlyOnceNoSpurious ==
    live =>
        /\ \A i \in DOMAIN snapOut : snapOut[i] \in 1..snapSent
        /\ \A i \in DOMAIN lrOut : lrOut[i] \in 1..lrSent
        /\ \A i, j \in DOMAIN snapOut : i # j => snapOut[i] # snapOut[j]
        /\ \A i, j \in DOMAIN lrOut : i # j => lrOut[i] # lrOut[j]

\* C2: the envelopes returned from snapshot events appear in the order the
\* events were produced on the snapshot channel, and likewise for the change
\* channel, whatever the interleaving of the producers and the reads.
C2_PerChannelOrder ==
    /\ Increasing(RealIds(snapOut))
    /\ Increasing(RealIds(lrOut))
    /\ \A i \in DOMAIN RealIds(snapOut) : RealIds(snapOut)[i] <= snapSent
    /\ \A i \in DOMAIN RealIds(lrOut) : RealIds(lrOut)[i] <= lrSent

\* Two snapshot rows and a change event have been returned by reads.
C2_Witness == Len(RealIds(snapOut)) >= 2 /\ Len(RealIds(lrOut)) >= 1

\* C3: acknowledging a change-sourced envelope writes the checkpoint exactly
\* once, with the event's position marker, when the event carries one, and
\* writes nothing when it carries none.
C3_ChangeAckWritesMarker ==
    [][(Called("Ack") /\ ret'.via = "lr" /\ ret'.sig = Nil)
         => ackLSNCalls' = ackLSNCalls \o
                (IF ret'.lsn # NoLsn THEN <<ret'.lsn>> ELSE <<>>)]_vars

\* C4: invoking the ack function of a snapshot-sourced envelope, with success
\* or with failure, writes no checkpoint.
C4_SnapshotAckWritesNothing ==
    [][(Called("Ack") /\ ret'.via = "snapshot") => ackLSNCalls' = ackLSNCalls]_vars

\* The ack function of a produced snapshot row has been invoked, and no
\* checkpoint has been written.
C4_Witness ==
    ret.op = "Ack" /\ ret.via = "snapshot" /\ ret.id > 0 /\ ackLSNCalls = <<>>

\* C5: a Read that returns because the context was cancelled calls Stop() on
\* the session and reports end-of-stream: neither another error nor a nil
\* error next to a nil message.
C5_CancelReportsEndOfStream ==
    [][(Called("Read") /\ ret'.via = "ctx")
         => (stopCalls' = stopCalls + 1 /\ ret'.err = ErrEndOfInput)]_vars

\* C6: once a Read has returned on cancellation with both channels empty,
\* Stop() has been called exactly once, whatever Read and Close calls follow.
C6_StopExactlyOnce ==
    (variant = "lib" /\ hist.eosEmpty) => stopCalls = 1

\* C7: once a Read has returned on cancellation and the session is stopped,
\* no later Read returns an envelope.
C7_NoEnvelopeAfterCancel ==
    [][(variant = "lib" /\ hist.eos /\ ~live /\ Called("Read"))
         => ret'.msg = NoMessage]_vars

\* C8: after Close has returned, every Read returns an error: no envelope,
\* no panic (also when the instance was never connected).
C8_ReadAfterCloseFails ==
    [][(hist.closed /\ Called("Read"))
         => (ret'.err # Nil /\ ret'.msg = NoMessage /\ ~crashed')]_vars

C10_ClosedAfterStopError ==
    [][(variant = "lib" /\ hist.closeErr /\ ~live)
         => /\ Called("Close") => stopCalls' = stopCalls
            /\ Called("Read") => (ret'.err # Nil /\ ret'.msg = NoMessage)]_vars

\* C11: when NewPgStream cannot establish the session, Connect returns an
\* error without a panic, stores no session handle, and leaves no check
\* pointer connection open that it opened in the same call.
C11_ConnectFailureIsReturned ==
    [][(Called("Connect") /\ ret'.via = "NewPgStream")
         => /\ ~crashed'
            /\ ret'.err # Nil
            /\ pglogicalStream' = pglogicalStream
            /\ hist'.checkPointers = hist.checkPointers]_vars

\* C12: the instance never has more than one live session: a Connect on an
\* instance that already holds a session handle (streaming or closed) returns
\* an error, creates no session and leaves the handle as it is.
C12_SingleSession ==
    [][(Called("Connect") /\ pglogicalStream # NilStream)
         => /\ ret'.err # Nil
            /\ sessions' = sessions
            /\ pglogicalStream' = pglogicalStream
            /\ orphans' = 0]_vars

\* C13: a Read that fails to serialize the message it received returns the
\* error alone, with no envelope and no ack function; it does not call
\* Stop(), closes no channel and leaves the session as it was, with the
\* following events of both channels still waiting.
C13_MarshalErrorIsLocal ==
    [][(Called("Read") /\ ret'.err = MarshalError)
         => /\ ret'.msg = NoMessage /\ ~ret'.ack /\ ackFns' = ackFns
            /\ ~crashed'
            /\ stopCalls' = stopCalls /\ live' = live
            /\ pglogicalStream' = pglogicalStream
            /\ snapC'.closed = snapC.closed /\ lrC'.closed = lrC.closed
            /\ ret'.via = "snapshot" => (snapC'.buf = Tail(snapC.buf) /\ lrC' = lrC)
            /\ ret'.via = "lr" => (lrC'.buf = Tail(lrC.buf) /\ snapC' = snapC)]_vars

\* The first change event could not be serialized, and a later Read has
\* returned the second one from the running session.
C13_Witness ==
    variant = "lib" /\ live /\ lrOut = <<2>> /\ ret.op = "Read" /\ ret.err = Nil

\* C18: the ack function of a change-sourced envelope, invoked with an error,
\* writes no checkpoint and puts the event back on no channel, whether the
\* event carries a position marker or not.
C18_NackWritesNothing ==
    [][(Called("Ack") /\ ret'.via = "lr" /\ ret'.sig # Nil)
         => (ackLSNCalls' = ackLSNCalls /\ lrC' = lrC /\ snapC' = snapC)]_vars

\* ------------------------------------- a consumer that keeps calling Read
\* The instance after a successful Connect of the lib variant: the session is
\* active and its two channels are open and empty.
InitStreaming ==
    /\ variant = "lib"
    /\ pglogicalStream = 1
    /\ live = TRUE
    /\ snapC = OpenChan /\ lrC = OpenChan
    /\ snapSent = 0 /\ lrSent = 0
    /\ ctxDone = FALSE
    /\ crashed = FALSE
    /\ ackFns = <<>>
    /\ ackLSNCalls = <<>>
    /\ stopCalls = 0 /\ terminations = 0 /\ orphans = 0
    /\ ret = [op |-> "Connect", via |-> "none", msg |-> NoMessage, ack |-> FALSE,
              err |-> Nil, sig |-> Nil, id |-> 0, lsn |-> NoLsn, prev |-> "none"]
    /\ snapOut = <<>> /\ lrOut = <<>>
    /\ calls = 1 /\ sessions = 1
    /\ hist = [eos |-> FALSE, eosEmpty |-> FALSE, closed |-> FALSE, closeErr |-> FALSE,
               checkPointers |-> 0]
    /\ cp = [db |-> <<>>, n |-> 0, last |-> [slot \in Slots |-> Empty],
             ret |-> [op |-> "none", slot |-> <<>>, val |-> Empty, err |-> Nil,
                      ok |-> TRUE, prev |-> Empty, werr |-> Nil, sig |-> Nil]]

\* What Read returns from a receive case of its select: the marshalled
\* message with an ack function, or json.Marshal's error.
ReadResult(via, message) ==
    LET m == Marshal(message)
    IN IF m.err # Nil THEN Ret("Read", via, NoMessage, FALSE, m.err)
                      ELSE Ret("Read", via, m.mb, TRUE, Nil)

\* lib: Read takes the snapshot case. The calls are not counted and the ack
\* functions the caller holds are not recorded, so that Read can be called
\* for ever.
LiveReadSnapshot ==
    /\ ~crashed /\ pglogicalStream # NilStream /\ Ready(snapC)
    /\ LET r == Recv(snapC)
       IN /\ snapC' = r.ch
          /\ ret' = ReadResult("snapshot", r.val)
    /\ UNCHANGED <<cp, variant, pglogicalStream, live, lrC, snapSent, lrSent, ctxDone,
                   crashed, ackFns, ackLSNCalls, stopCalls, terminations, orphans,
                   snapOut, lrOut, hist, calls, sessions>>

\* A change case select takes only when the snapshot case is not ready.
LiveReadLrAfterSnapshot ==
    /\ ~crashed /\ pglogicalStream # NilStream /\ Ready(lrC) /\ ~Ready(snapC)
    /\ LET r == Recv(lrC)
       IN /\ lrC' = r.ch
          /\ ret' = ReadResult("lr", r.val)
    /\ UNCHANGED <<cp, variant, pglogicalStream, live, snapC, snapSent, lrSent, ctxDone,
                   crashed, ackFns, ackLSNCalls, stopCalls, terminations, orphans,
                   snapOut, lrOut, hist, calls, sessions>>

\* lib: Read takes the change case (calls and ack functions as above).
LiveReadLr ==
    /\ ~crashed /\ pglogicalStream # NilStream /\ Ready(lrC)
    /\ LET r == Recv(lrC)
       IN /\ lrC' = r.ch
          /\ ret' = ReadResult("lr", r.val)
    /\ UNCHANGED <<cp, variant, pglogicalStream, live, snapC, snapSent, lrSent, ctxDone,
                   crashed, ackFns, ackLSNCalls, stopCalls, terminations, orphans,
                   snapOut, lrOut, hist, calls, sessions>>

NextStreaming ==
    \/ ProduceSnapshot \/ CloseSnapshot \/ ProduceChange
    \/ LiveReadSnapshot \/ LiveReadLr

\* The context is never cancelled and the consumer keeps calling Read; select
\* chooses at random among its ready cases, so a case that stays ready is
\* taken in the end.
SpecFair ==
    /\ InitStreaming /\ [][NextStreaming]_vars
    /\ WF_vars(LiveReadSnapshot) /\ WF_vars(LiveReadLr)

\* The step is an operation op on the check pointer.
StoreCalled(op) == cp'.n # cp.n /\ cp'.ret.op = op

\* What GetCheckPoint returns for the slot when Redis answers.
Stored(slot) == GetCheckPoint(cp.db, slot, TRUE)

\* C14: the position stored for a slot never decreases: whatever the order in
\* which the ack functions of change events are invoked, an ack for an older
\* position does not overwrite a newer one.
C14_StoredPositionMonotonic ==
    [][StoreCalled("Ack") => \A slot \in Slots : Stored(slot)' >= Stored(slot)]_vars

\* C15: after any sequence of successful writes to a slot, whatever the order
\* of their values, GetCheckPoint returns the last one written; for a slot
\* never written it returns the empty result.
C15_LastWriteWins ==
    \A slot \in Slots : Stored(slot) = cp.last[slot]

\* A successful SetCheckPoint has overwritten a newer position with an older
\* one.
C15_Witness ==
    /\ cp.ret.op = "Set" /\ cp.ret.err = Nil
    /\ cp.ret.prev > cp.ret.val
    /\ Stored(cp.ret.slot) = cp.ret.val

\* C16: when the checkpoint write caused by the ack of a positioned change
\* event fails, the ack function returns the error of the write.
C16_AckReturnsWriteError ==
    (cp.ret.op = "Ack" /\ cp.ret.werr # Nil) => cp.ret.err = cp.ret.werr

\* C17: GetCheckPoint returns no error; when the read fails it returns the
\* empty result, as for a slot never written, and the store is unchanged.
C17_GetHidesReadError ==
    [][StoreCalled("Get")
         => /\ cp'.ret.err = Nil
            /\ cp'.db = cp.db /\ cp'.last = cp.last
            /\ ~cp'.ret.ok => /\ cp'.ret.val = Empty
                              /\ cp'.ret.val = GetCheckPoint(<<>>, cp'.ret.slot, TRUE)
            /\ cp'.ret.ok => cp'.ret.val = cp.last[cp'.ret.slot]]_vars

\* A GetCheckPoint whose read failed has returned the empty result for a slot
\* that holds a position.
C17_Witness ==
    /\ cp.ret.op = "Get" /\ ~cp.ret.ok
    /\ cp.last[cp.ret.slot] # Empty /\ cp.ret.val = Empty

\* C20: the key is the prefix followed by the slot name, distinct slot names
\* have distinct keys, and SetCheckPoint for one slot leaves what
\* GetCheckPoint returns for every other slot unchanged.
C20_SlotIsolation ==
    [][/\ \A s1, s2 \in Slots :
            /\ SubSeq(Key(s1), 1, Len(Prefix)) = Prefix
            /\ SubSeq(Key(s1), Len(Prefix) + 1, Len(Key(s1))) = s1
            /\ s1 # s2 => Key(s1) # Key(s2)
       /\ StoreCalled("Set")
            => \A s2 \in Slots \ {cp'.ret.slot} : Stored(s2)' = Stored(s2)]_vars

\* A successful SetCheckPoint for one slot has run while another slot held a
\* position, and that position is still there.
C20_Witness ==
    /\ cp.ret.op = "Set" /\ cp.ret.err = Nil
    /\ \E s2 \in Slots \ {cp.ret.slot} : Stored(s2) # Empty /\ Stored(s2) = cp.last[s2]

\* Event k of a channel is waiting on it; with mustMarshal, only an event
\* json.Marshal accepts.
Waiting(ch, k, mustMarshal) ==
    \E i \in DOMAIN ch.buf : ch.buf[i].id = k /\ (mustMarshal => ch.buf[i].ok)

\* The last call was a Read that returned event k of the channel via.
Returned(via, k) ==
    /\ ret.op = "Read" /\ ret.via = via /\ ret.err = Nil
    /\ ret.msg # NoMessage /\ ret.msg[2] = k

\* C19 as stated: while the session is active, the context is never cancelled
\* and the consumer keeps calling Read, every event produced on either
\* channel is eventually returned by a Read.
C19_EveryEventReturned ==
    /\ \A k \in 1..MaxChange : Waiting(lrC, k, FALSE) ~> Returned("lr", k)
    /\ \A k \in 1..MaxSnap : Waiting(snapC, k, FALSE) ~> Returned("snapshot", k)

\* C19: under the same conditions every event json.Marshal accepts is
\* eventually returned by a Read, also once the snapshot channel is closed.
C19_MarshallableEventReturned ==
    /\ \A k \in 1..MaxChange : Waiting(lrC, k, TRUE) ~> Returned("lr", k)
    /\ \A k \in 1..MaxSnap : Waiting(snapC, k, TRUE) ~> Returned("snapshot", k)

\* A Read has returned a change event produced after the snapshot channel was
\* closed and read as closed.
C19_Witness ==
    /\ snapC.closed /\ snapC.buf = <<>> /\ snapSent > 0
    /\ Returned("lr", lrSent) /\ lrSent > 0
    /\ ret.prev = "Read"

====
